---- MODULE Spec2Model ----
(***************************************************************************)
(* Document ingestion pipeline of app/utils/file_parser.py (FileParser).   *)
(*                                                                         *)
(* A Python str is a sequence of code points, a bytes object a sequence of *)
(* byte values 0..255.  The PDF libraries (pypdf, pdfplumber, pdf2image,   *)
(* pytesseract) are external: every call into them is a nondeterministic   *)
(* choice among the outcomes the call can have (raise, None, a text).      *)
(***************************************************************************)
EXTENDS Integers, Sequences, FiniteSets, TLC

(***************************************************************************)
(* Bounds of the model.                                                    *)
(***************************************************************************)
MaxPages == 2
MaxBytes == 2
MaxChars == 2
NumCalls == 2
MaxResources == 2
MaxAgents == 2
MaxRemoteCalls == 2

(***************************************************************************)
(* Program constant: the length a text-layer candidate has to exceed.      *)
(***************************************************************************)
MinLen == 50

(***************************************************************************)
(* Strings.                                                                *)
(***************************************************************************)
NL == 10

\* k times the letter "x"
X(k) == [i \in 1..k |-> 120]

\* str.isspace() of one code point
IsSpace(c) ==
    \/ c \in 9..13
    \/ c \in 28..32
    \/ c \in {133, 160, 5760, 8232, 8233, 8239, 8287, 12288}
    \/ c \in 8192..8202

SetMin(S) == CHOOSE m \in S : \A n \in S : m <= n
SetMax(S) == CHOOSE m \in S : \A n \in S : m >= n

\* the first index from i upwards, the last from i downwards, of a character
\* that is not whitespace (Len(s) + 1, 0 when there is none)
RECURSIVE lstrip_at(_, _)
lstrip_at(s, i) ==
    IF i > Len(s) \/ ~IsSpace(s[i]) THEN i ELSE lstrip_at(s, i + 1)

RECURSIVE rstrip_at(_, _)
rstrip_at(s, i) ==
    IF i < 1 \/ ~IsSpace(s[i]) THEN i ELSE rstrip_at(s, i - 1)

strip_left(s) == SubSeq(s, lstrip_at(s, 1), Len(s))

\* str.strip()
strip(s) == SubSeq(s, lstrip_at(s, 1), rstrip_at(s, Len(s)))

\* truthiness of "s and s.strip()"
HasText(s) == s /= <<>> /\ strip(s) /= <<>>

(***************************************************************************)
(* Type classifier: os.path.splitext, str.lower, get_file_type.            *)
(***************************************************************************)
SEP == 47
EXTSEP == 46

\* str.rfind of one code point, 0-based, -1 when absent
rfind(p, c) ==
    LET at == {i \in 1..Len(p) : p[i] = c}
    IN  IF at = {} THEN -1 ELSE SetMax(at) - 1

\* genericpath._splitext: the extension part of os.path.splitext(p)
RECURSIVE splitext_scan(_, _, _)
splitext_scan(p, filenameIndex, dotIndex) ==
    IF filenameIndex < dotIndex
    THEN IF p[filenameIndex + 1] /= EXTSEP
         THEN SubSeq(p, dotIndex + 1, Len(p))
         ELSE splitext_scan(p, filenameIndex + 1, dotIndex)
    ELSE <<>>

splitext_ext(p) ==
    LET sepIndex == rfind(p, SEP)
        dotIndex == rfind(p, EXTSEP)
    IN  IF dotIndex > sepIndex
        THEN splitext_scan(p, sepIndex + 1, dotIndex)
        ELSE <<>>

\* str.lower() of one code point (ASCII, Latin-1 capitals, KELVIN SIGN)
LowerChar(c) ==
    IF c \in 65..90 THEN c + 32
    ELSE IF c \in (192..222) \ {215} THEN c + 32
    ELSE IF c = 8490 THEN 107
    ELSE c

lower(s) == [i \in 1..Len(s) |-> LowerChar(s[i])]

EXT_PDF == <<46, 112, 100, 102>>                               \* ".pdf"
EXT_MD == <<46, 109, 100>>                                     \* ".md"
EXT_MARKDOWN == <<46, 109, 97, 114, 107, 100, 111, 119, 110>>  \* ".markdown"
EXT_TXT == <<46, 116, 120, 116>>                               \* ".txt"
EXT_TEXT == <<46, 116, 101, 120, 116>>                         \* ".text"

get_file_type_nolower(filename) ==
    LET ext == splitext_ext(filename)
    IN  IF ext = EXT_PDF THEN "pdf"
        ELSE IF ext \in {EXT_MD, EXT_MARKDOWN} THEN "md"
        ELSE IF ext \in {EXT_TXT, EXT_TEXT} THEN "text"
        ELSE "text"

get_file_type_markdown(filename) ==
    LET ext == lower(splitext_ext(filename))
    IN  IF ext = EXT_PDF THEN "pdf"
        ELSE IF ext \in {EXT_MD, EXT_MARKDOWN} THEN "markdown"
        ELSE IF ext \in {EXT_TXT, EXT_TEXT} THEN "text"
        ELSE "text"

get_file_type(filename) ==
    LET ext == lower(splitext_ext(filename))
    IN  IF ext = EXT_PDF THEN "pdf"
        ELSE IF ext \in {EXT_MD, EXT_MARKDOWN} THEN "md"
        ELSE IF ext \in {EXT_TXT, EXT_TEXT} THEN "text"
        ELSE "text"

(***************************************************************************)
(* Codecs: bytes.decode(encoding).  A decoder yields a record              *)
(* [ok |-> TRUE, s |-> str] or [ok |-> FALSE] for UnicodeDecodeError.      *)
(***************************************************************************)
DecErr == [ok |-> FALSE, s |-> <<>>]
DecOk(s) == [ok |-> TRUE, s |-> s]

IsCont(b) == b \in 128..191

\* the code point and the length of the UTF-8 sequence that starts at b[i],
\* n = 0 when b[i..] does not start with a well-formed sequence
utf8_at(b, i) ==
    LET b1 == b[i]
        has(k) == i + k <= Len(b)
    IN  IF b1 < 128 THEN [n |-> 1, c |-> b1]
        ELSE IF b1 \in 194..223 /\ has(1) /\ IsCont(b[i + 1])
        THEN [n |-> 2, c |-> (b1 - 192) * 64 + (b[i + 1] - 128)]
        ELSE IF /\ b1 \in 224..239 /\ has(2)
                /\ IsCont(b[i + 1]) /\ IsCont(b[i + 2])
                /\ (b1 = 224 => b[i + 1] >= 160)
                /\ (b1 = 237 => b[i + 1] <= 159)
        THEN [n |-> 3, c |-> (b1 - 224) * 4096 + (b[i + 1] - 128) * 64
                             + (b[i + 2] - 128)]
        ELSE IF /\ b1 \in 240..244 /\ has(3)
                /\ IsCont(b[i + 1]) /\ IsCont(b[i + 2]) /\ IsCont(b[i + 3])
                /\ (b1 = 240 => b[i + 1] >= 144)
                /\ (b1 = 244 => b[i + 1] <= 143)
        THEN [n |-> 4, c |-> (b1 - 240) * 262144 + (b[i + 1] - 128) * 4096
                             + (b[i + 2] - 128) * 64 + (b[i + 3] - 128)]
        ELSE [n |-> 0, c |-> 0]

RECURSIVE utf8_from(_, _, _)
utf8_from(b, i, acc) ==
    IF i > Len(b) THEN DecOk(acc)
    ELSE LET u == utf8_at(b, i)
         IN  IF u.n = 0 THEN DecErr
             ELSE utf8_from(b, i + u.n, Append(acc, u.c))

\* decode('utf-8')
decode_utf8(b) == utf8_from(b, 1, <<>>)

\* decode('utf-8', errors='ignore'): an ill-formed byte is dropped
RECURSIVE utf8_ignore_from(_, _, _)
utf8_ignore_from(b, i, acc) ==
    IF i > Len(b) THEN acc
    ELSE LET u == utf8_at(b, i)
         IN  IF u.n = 0 THEN utf8_ignore_from(b, i + 1, acc)
             ELSE utf8_ignore_from(b, i + u.n, Append(acc, u.c))

decode_utf8_ignore(b) == utf8_ignore_from(b, 1, <<>>)

BOM == <<239, 187, 191>>

\* decode('utf-8-sig'): a leading byte order mark is dropped
decode_utf8_sig(b) ==
    IF Len(b) >= 3 /\ SubSeq(b, 1, 3) = BOM
    THEN decode_utf8(SubSeq(b, 4, Len(b)))
    ELSE decode_utf8(b)

\* A double-byte character is kept as an opaque code point above the Unicode
\* range, one per (lead, trail) of the GB family and one per (lead, trail) of
\* Big5 (the few characters Big5 holds at two pairs are kept apart): no byte
\* pair decodes to the same character in gbk and in big5, and
\* gbk and gb2312 decode a pair alike but for A1A4 and A1AA.  U+3000, the
\* ideographic space, is the one double-byte character str.strip() removes.
DbcsChar(codec, lead, trail) ==
    IF codec = "big5"
    THEN IF lead = 161 /\ trail = 64 THEN 12288
         ELSE 3000000 + lead * 256 + trail
    ELSE IF lead = 161 /\ trail = 161 THEN 12288
    ELSE IF lead = 161 /\ trail = 164
         THEN (IF codec = "gbk" THEN 183 ELSE 12539)
    ELSE IF lead = 161 /\ trail = 170
         THEN (IF codec = "gbk" THEN 8212 ELSE 8213)
    ELSE 2000000 + lead * 256 + trail

\* trail bytes 0x40..0x7E and 0x80..hi
GbkTrail(hi) == (64..126) \cup (128..hi)

\* the (lead, trail) pairs the gbk codec assigns a character to
GbkPair(lead, trail) ==
    CASE lead \in (129..160) \cup (176..214) \cup (216..247) ->
           trail \in GbkTrail(254)
      [] lead \in {161, 163} -> trail \in 161..254
      [] lead = 162 ->
           trail \in (161..170) \cup (177..226) \cup (229..238) \cup (241..252)
      [] lead = 164 -> trail \in 161..243
      [] lead = 165 -> trail \in 161..246
      [] lead = 166 ->
           trail \in (161..184) \cup (193..216) \cup (224..235)
                       \cup (238..242) \cup (244..245)
      [] lead = 167 -> trail \in (161..193) \cup (209..241)
      [] lead = 168 ->
           trail \in GbkTrail(149) \cup (161..187) \cup (189..190) \cup {192}
                       \cup (197..233)
      [] lead = 169 ->
           trail \in (64..87) \cup (89..90) \cup {92} \cup (96..126)
                       \cup (128..136) \cup {150} \cup (164..239)
      [] lead \in (170..175) \cup (248..253) -> trail \in GbkTrail(160)
      [] lead = 215 -> trail \in GbkTrail(249)
      [] lead = 254 -> trail \in 64..79
      [] OTHER -> FALSE

\* the (lead, trail) pairs the gb2312 codec assigns a character to
Gb2312Pair(lead, trail) ==
    CASE lead \in {161, 163} \cup (176..214) \cup (216..247) ->
           trail \in 161..254
      [] lead = 162 -> trail \in (177..226) \cup (229..238) \cup (241..252)
      [] lead = 164 -> trail \in 161..243
      [] lead = 165 -> trail \in 161..246
      [] lead = 166 -> trail \in (161..184) \cup (193..216)
      [] lead = 167 -> trail \in (161..193) \cup (209..241)
      [] lead = 168 -> trail \in (161..186) \cup (197..233)
      [] lead = 169 -> trail \in 164..239
      [] lead = 215 -> trail \in 161..249
      [] OTHER -> FALSE

\* the (lead, trail) pairs the big5 codec assigns a character to
Big5Pair(lead, trail) ==
    CASE lead \in (161..162) \cup (164..198) \cup (201..248) ->
           trail \in (64..126) \cup (161..254)
      [] lead = 163 -> trail \in (64..126) \cup (161..191)
      [] lead = 199 -> trail \in (64..126) \cup (161..252)
      [] lead = 249 -> trail \in (64..126) \cup (161..213)
      [] OTHER -> FALSE

DbcsPair(codec, lead, trail) ==
    CASE codec = "gbk" -> GbkPair(lead, trail)
      [] codec = "gb2312" -> Gb2312Pair(lead, trail)
      [] codec = "big5" -> Big5Pair(lead, trail)

RECURSIVE dbcs_from(_, _, _, _)
dbcs_from(codec, b, i, acc) ==
    IF i > Len(b) THEN DecOk(acc)
    ELSE IF b[i] < 128 THEN dbcs_from(codec, b, i + 1, Append(acc, b[i]))
    ELSE IF i + 1 <= Len(b) /\ DbcsPair(codec, b[i], b[i + 1])
    THEN dbcs_from(codec, b, i + 2,
                   Append(acc, DbcsChar(codec, b[i], b[i + 1])))
    ELSE DecErr

\* decode('gbk'), decode('gb2312'), decode('big5')
decode_dbcs(codec, b) == dbcs_from(codec, b, 1, <<>>)

\* decode('latin-1') and decode('iso-8859-1'): byte n is code point n
decode_latin1_ascii(b) ==
    IF \E i \in 1..Len(b) : b[i] >= 128 THEN DecErr ELSE DecOk(b)

decode_latin1(b) == DecOk(b)

\* decode('cp1252'): five bytes are unassigned; the bytes 128..159 that are
\* assigned map outside Latin-1 (kept as opaque code points)
decode_cp1252(b) ==
    IF \E i \in 1..Len(b) : b[i] \in {129, 141, 143, 144, 157}
    THEN DecErr
    ELSE DecOk([i \in 1..Len(b) |->
                   IF b[i] \in 128..159 THEN 4000000 + b[i] ELSE b[i]])

decode(encoding, b) ==
    CASE encoding = "utf-8" -> decode_utf8(b)
      [] encoding = "utf-8-sig" -> decode_utf8_sig(b)
      [] encoding \in {"gbk", "gb2312", "big5"} -> decode_dbcs(encoding, b)
      [] encoding \in {"latin-1", "iso-8859-1"} -> decode_latin1(b)
      [] encoding = "cp1252" -> decode_cp1252(b)

MarkdownEncodings == <<"utf-8", "utf-8-sig", "latin-1", "cp1252">>
TextEncodings ==
    <<"utf-8", "utf-8-sig", "gbk", "gb2312", "big5", "latin-1", "cp1252",
      "iso-8859-1">>

FirstDecodingLast(encodings, b) ==
    LET good == {k \in 1..Len(encodings) : decode(encodings[k], b).ok}
    IN  IF good = {} THEN 0 ELSE SetMax(good)

\* the loop over the candidate encodings: the first one that decodes the
\* whole buffer, 0 when none does
FirstDecoding(encodings, b) ==
    LET good == {k \in 1..Len(encodings) : decode(encodings[k], b).ok}
    IN  IF good = {} THEN 0 ELSE SetMin(good)

\* the candidates the loop hands to bytes.decode, in the order it does
tried_encodings(encodings, b) ==
    LET k == FirstDecoding(encodings, b)
    IN  IF k = 0 THEN encodings ELSE SubSeq(encodings, 1, k)

\* "if text_content is None", the statement after the loop of parse_text: no
\* candidate decoded the buffer, the lossy decoding is executed
lossy_fallback(encodings, b) == FirstDecoding(encodings, b) = 0

decode_candidates_nocatch(encodings, b) == decode(encodings[1], b)

\* the loop and the statement after it: UnicodeDecodeError of a candidate is
\* caught and the next one is tried, after the last one the buffer is decoded
\* as UTF-8 with ill-formed bytes dropped.  DecErr stands for an exception
\* that leaves the loop.
decode_candidates(encodings, b) ==
    LET k == FirstDecoding(encodings, b)
    IN  IF k = 0 THEN DecOk(decode_utf8_ignore(b)) ELSE decode(encodings[k], b)

\* str(e) of a UnicodeDecodeError
UNICODE_EXC == "codec can't decode byte"

\* what a decoder call amounts to: a returned str or a raised ValueError
ParseOk(t) == [raised |-> FALSE, text |-> t, msg |-> <<>>]
ParseRaised(m) == [raised |-> TRUE, text |-> <<>>, msg |-> m]

parse_markdown(file_content) ==
    LET r == decode_candidates(MarkdownEncodings, file_content)
    IN  IF r.ok THEN ParseOk(strip(r.s))
        ELSE ParseRaised(<<"Markdown parsing failed: ", UNICODE_EXC>>)

parse_text(file_content) ==
    LET r == decode_candidates(TextEncodings, file_content)
    IN  IF r.ok THEN ParseOk(strip(r.s))
        ELSE ParseRaised(<<"Text parsing failed: ", UNICODE_EXC>>)

\* str.encode(codec) of a str whose characters are ASCII or characters of
\* the codec with one byte pair
CjkEncodings == {"gbk", "gb2312", "big5"}

encode_char(codec, c) ==
    IF c < 128 THEN <<c>>
    ELSE IF c = 12288
    THEN (IF codec = "big5" THEN <<161, 64>> ELSE <<161, 161>>)
    ELSE IF c \in {183, 12539} THEN <<161, 164>>
    ELSE IF c \in {8212, 8213} THEN <<161, 170>>
    ELSE <<(c % 1000000) \div 256, c % 256>>

RECURSIVE encode(_, _)
encode(codec, s) ==
    IF s = <<>> THEN <<>>
    ELSE encode_char(codec, Head(s)) \o encode(codec, Tail(s))

(***************************************************************************)
(* Inputs of the model.                                                    *)
(***************************************************************************)
\* file names handed to parse_file
FileNames ==
    { <<97, 46, 80, 100, 102>>,                \* "a.Pdf"
      <<97>> \o EXT_MD,                        \* "a.md"
      <<97, 46, 77, 97, 114, 107, 68, 111, 119, 110>>,   \* "a.MarkDown"
      <<97>> \o EXT_TXT,                       \* "a.txt"
      <<97, 46, 120, 121, 122>>,               \* "a.xyz"
      <<97>> }                                 \* "a"

\* byte values the text buffers are built from: space, "A", the two bytes of
\* UTF-8 "e acute" (0xC3 0xA9), 0xA0 (no-break space in Latin-1) and 0xFF
ByteAlphabet == {32, 65, 195, 169, 160, 255}

RECURSIVE SeqsUpTo(_, _)
SeqsUpTo(S, n) ==
    IF n = 0 THEN {<<>>}
    ELSE LET shorter == SeqsUpTo(S, n - 1)
         IN  shorter \cup {Append(q, c) : q \in shorter, c \in S}

TextContents == SeqsUpTo(ByteAlphabet, MaxBytes)

\* The PDF strategies hand the buffer to the libraries and never look at a
\* byte themselves: what the libraries make of it is chosen at each call.
PdfContents == {<<>>, <<37, 80, 68, 70>>}      \* b"", b"%PDF"

\* texts page.extract_text() can yield: blank, and 25, 49 (after a space) and
\* 50 letters
PageTexts == { <<32, NL>>, X(25), <<32>> \o X(49), X(50) }

\* texts pytesseract.image_to_string can yield: empty, blank, one letter between
\* whitespace, and a line of 25 letters
OcrTexts == { <<>>, <<32, NL>>, <<32>> \o X(1) \o <<NL>>, X(25) }

\* outcome of the extraction of one page: an exception, None, or a text
PageOutcomes ==
    { [k |-> "raise", t |-> <<>>], [k |-> "none", t |-> <<>>] }
        \cup { [k |-> "text", t |-> t] : t \in PageTexts }

OcrOutcomes ==
    { [k |-> "raise", t |-> <<>>] } \cup { [k |-> "text", t |-> t] : t \in OcrTexts }

\* messages of the exceptions pypdf, pdfplumber and pdf2image raise
PYPDF_EXC == "EOF marker not found"
PDFPLUMBER_EXC == "No /Root object"
OCR_EXC == "Unable to get page count"
ExcTexts == {PYPDF_EXC, PDFPLUMBER_EXC, OCR_EXC}

(***************************************************************************)
(* State of one parse_file call.                                           *)
(***************************************************************************)
VARIABLES
    filename,        \* argument
    file_content,    \* argument
    pc,              \* position in parse_file / parse_pdf / extract_text_with_ocr
    file_type,       \* parse_file: file_type ("none" before it is assigned)
    text_content,    \* parse_pdf: text_content
    extracted_text,  \* extract_text_with_ocr: extracted_text
    ocr_text,        \* parse_pdf: ocr_text
    npages,          \* number of pages of the document being iterated
    page_i,          \* pages already iterated
    parsed_content,  \* parse_file: parsed_content
    exc,             \* message of the exception caught last ("" when none)
    result,          \* what parse_file returned or raised
    trace,           \* history: <<strategy, event>>
    pageLog,         \* history: page outcomes of the strategy last iterated
    logged,          \* the record the module's logger was handed last
    arg,             \* harness: the argument of the function called
    ret,             \* harness: what the function returned
    calls,           \* concurrent parse_file calls: the locals of each call
    db,              \* resource service: the rows of the table resources
    files,           \* resource service: the paths present in upload_dir
    response,        \* the answer to the last request
    uploaded,        \* history: the uploads answered 201 and not addressed
                     \* by an update or a delete since: the id, the file
                     \* and what parse_file returned for it
    agents,          \* agent service: the rows of the table agents
    api_key,         \* settings.openai_api_key
    remote_calls     \* history: the calls of client.chat.completions.create

vars ==
    << filename, file_content, pc, file_type, text_content, extracted_text,
       ocr_text, npages, page_i, parsed_content, exc, result, trace, pageLog,
       logged, arg, ret, calls, db, files, response, uploaded, agents, api_key,
       remote_calls >>

NoResult == [status |-> "none", file_type |-> "none", text |-> <<>>, msg |-> <<>>]
Returned(ft, t) == [status |-> "ok", file_type |-> ft, text |-> t, msg |-> <<>>]
Raised(m) == [status |-> "error", file_type |-> "none", text |-> <<>>, msg |-> m]

\* the resource service before any request
NoResponse ==
    [op |-> "none", id |-> 0, status |-> 0, detail |-> "", body |-> {},
     req |-> <<>>]
\* settings.openai_api_key: None, or a str
NoKey == [set |-> FALSE, value |-> <<>>]
Key(value) == [set |-> TRUE, value |-> value]

NoService ==
    /\ db = {}
    /\ files = {}
    /\ response = NoResponse
    /\ uploaded = {}
    /\ agents = {}
    /\ api_key = NoKey
    /\ remote_calls = 0

\* logger.debug / info / warning / error(msg): the level and the fixed part
\* of the message
Log(level, msg) == [level |-> level, msg |-> msg]
NoLog == Log("none", "")

NoArg == [name |-> <<>>, twin |-> <<>>]
NoRet == [done |-> FALSE, kind |-> "none", twin_kind |-> "none"]

Init ==
    /\ filename \in FileNames
    /\ file_content \in
          (IF get_file_type(filename) = "pdf" THEN PdfContents ELSE TextContents)
    /\ pc = "start"
    /\ file_type = "none"
    /\ text_content = <<>>
    /\ extracted_text = <<>>
    /\ ocr_text = <<>>
    /\ npages = 0
    /\ page_i = 0
    /\ parsed_content = <<>>
    /\ exc = ""
    /\ result = NoResult
    /\ trace = <<>>
    /\ pageLog = <<>>
    /\ logged = NoLog
    /\ arg = NoArg
    /\ ret = NoRet
    /\ calls = <<>>
    /\ NoService

service == <<db, files, response, uploaded, agents, api_key, remote_calls>>
harness == <<arg, ret, calls, service>>
pdf_locals ==
    <<text_content, extracted_text, ocr_text, npages, page_i, exc, trace, pageLog,
      logged>>
pdf_texts ==
    <<text_content, extracted_text, ocr_text, npages, page_i, exc, trace, pageLog>>

(***************************************************************************)
(* parse_file: entry, dispatch, decoders, validation.                      *)
(***************************************************************************)
EMPTY_MSG == <<"File content is empty">>

Dispatch_pdf_as_text(ft) ==
    CASE ft = "md" -> "md"
      [] OTHER -> "text"

\* the if / elif / else on file_type: where parse_file goes on
Dispatch(ft) ==
    CASE ft = "pdf" -> "m1_open"
      [] ft = "md" -> "md"
      [] OTHER -> "text"

ParseFileEntryNoCheck ==
    /\ pc = "start"
    /\ file_type' = get_file_type(filename)
    /\ logged' = Log("info", "Parsing file")
    /\ pc' = Dispatch(file_type')
    /\ UNCHANGED <<filename, file_content, parsed_content, result,
                   pdf_texts, harness>>

ParseFileEntry ==
    /\ pc = "start"
    /\ IF file_content = <<>>
       THEN /\ result' = Raised(EMPTY_MSG)
            /\ pc' = "done"
            /\ UNCHANGED <<file_type, logged>>
       ELSE /\ file_type' = get_file_type(filename)
            /\ logged' = Log("info", "Parsing file")
            /\ pc' = Dispatch(file_type')
            /\ UNCHANGED result
    /\ UNCHANGED <<filename, file_content, parsed_content, pdf_texts, harness>>

\* parsed_content = cls.parse_markdown(file_content); a ValueError it raises
\* is logged and re-raised by parse_file
ParseMarkdown ==
    /\ pc = "md"
    /\ LET r == parse_markdown(file_content)
       IN  IF r.raised
           THEN /\ result' = Raised(r.msg)
                /\ logged' = Log("error", "Failed to parse file")
                /\ pc' = "done"
                /\ UNCHANGED parsed_content
           ELSE /\ parsed_content' = r.text
                /\ logged' = (IF lossy_fallback(MarkdownEncodings, file_content)
                               THEN Log("warning", "Decoded markdown with error handling")
                               ELSE Log("debug", "Successfully decoded markdown"))
                /\ pc' = "validate"
                /\ UNCHANGED result
    /\ UNCHANGED <<filename, file_content, file_type, pdf_texts, harness>>

\* parsed_content = cls.parse_text(file_content)
ParseText ==
    /\ pc = "text"
    /\ LET r == parse_text(file_content)
       IN  IF r.raised
           THEN /\ result' = Raised(r.msg)
                /\ logged' = Log("error", "Failed to parse file")
                /\ pc' = "done"
                /\ UNCHANGED parsed_content
           ELSE /\ parsed_content' = r.text
                /\ logged' = (IF lossy_fallback(TextEncodings, file_content)
                               THEN Log("warning", "Decoded text file with error handling")
                               ELSE Log("debug", "Successfully decoded text file"))
                /\ pc' = "validate"
                /\ UNCHANGED result
    /\ UNCHANGED <<filename, file_content, file_type, pdf_texts, harness>>

NoContentMsgGeneric(ft) == <<"No content could be extracted from the ", "file">>

NoContentMsg(ft) == <<"No content could be extracted from the ", ft, " file">>

ValidateNoCheck ==
    /\ pc = "validate"
    /\ result' = Returned(file_type, parsed_content)
    /\ logged' = Log("info", "Successfully parsed file")
    /\ pc' = "done"
    /\ UNCHANGED <<filename, file_content, file_type, parsed_content,
                   pdf_texts, harness>>

Validate ==
    /\ pc = "validate"
    /\ IF parsed_content = <<>> \/ strip(parsed_content) = <<>>
       THEN /\ result' = Raised(NoContentMsg(file_type))
            /\ logged' = Log("error", "Failed to parse file")
       ELSE /\ result' = Returned(file_type, parsed_content)
            /\ logged' = Log("info", "Successfully parsed file")
    /\ pc' = "done"
    /\ UNCHANGED <<filename, file_content, file_type, parsed_content,
                   pdf_texts, harness>>

(***************************************************************************)
(* parse_pdf, strategy 1: pypdf.                                           *)
(***************************************************************************)
Event(m, ev) == <<m, ev>>

\* text_content after one page: "if page_text and page_text.strip()"
AddPage(acc, o) ==
    IF o.k = "text" /\ HasText(o.t) THEN acc \o o.t \o <<NL>> ELSE acc

\* what the page loop of pypdf and of pdfplumber logs for one page
page_log(lib, o, last) ==
    IF o.k = "raise" THEN Log("warning", "Failed to extract text from page")
    ELSE IF o.k = "text" /\ HasText(o.t)
         THEN Log("debug", "Successfully extracted text from page")
         ELSE last

shortfall_log_info(lib) ==
    IF lib = "pypdf"
    THEN Log("info", "pypdf extracted insufficient text, trying pdfplumber")
    ELSE Log("warning", "pdfplumber extracted insufficient text, trying OCR")

\* the else branch of the threshold test of a strategy
shortfall_log(lib) ==
    IF lib = "pypdf"
    THEN Log("warning", "pypdf extracted insufficient text, trying pdfplumber")
    ELSE Log("warning", "pdfplumber extracted insufficient text, trying OCR")

\* the outer handler of a strategy
failed_log(lib) ==
    IF lib = "pypdf"
    THEN Log("warning", "pypdf parsing failed, trying pdfplumber")
    ELSE Log("warning", "pdfplumber parsing failed, trying OCR")

pypdf_accepts_any(tc) == strip(tc) /= <<>>

pypdf_accepts_ge(tc) == strip(tc) /= <<>> /\ Len(strip(tc)) >= MinLen

\* "text_content.strip() and len(text_content.strip()) > 50"
pypdf_accepts(tc) == strip(tc) /= <<>> /\ Len(strip(tc)) > MinLen

\* BytesIO(file_content); pypdf.PdfReader(pdf_file): raises, or a reader
M1OpenReraise ==
    /\ pc = "m1_open"
    /\ \/   /\ exc' = PYPDF_EXC
            /\ trace' = trace \o <<Event("pypdf", "start"),
                                   Event("pypdf", "raised")>>
            /\ result' = Raised(<<"PDF parsing failed: ", PYPDF_EXC>>)
            /\ logged' = Log("error", "Failed to parse file")
            /\ pc' = "done"
            /\ UNCHANGED <<npages, page_i, pageLog>>
       \/ \E n \in 0..MaxPages :
            /\ npages' = n
            /\ page_i' = 0
            /\ pageLog' = <<>>
            /\ trace' = Append(trace, Event("pypdf", "start"))
            /\ logged' = Log("info", "Attempting PDF parsing with pypdf")
            /\ pc' = "m1_page"
            /\ UNCHANGED <<exc, result>>
    /\ UNCHANGED <<filename, file_content, file_type, text_content,
                   extracted_text, ocr_text, parsed_content, harness>>

M1Open ==
    /\ pc = "m1_open"
    /\ \/   /\ exc' = PYPDF_EXC
            /\ trace' = trace \o <<Event("pypdf", "start"),
                                   Event("pypdf", "raised")>>
            /\ logged' = failed_log("pypdf")
            /\ pc' = "m2_open"
            /\ UNCHANGED <<npages, page_i, pageLog>>
       \/ \E n \in 0..MaxPages :
            /\ npages' = n
            /\ page_i' = 0
            /\ pageLog' = <<>>
            /\ trace' = Append(trace, Event("pypdf", "start"))
            /\ logged' = Log("info", "Attempting PDF parsing with pypdf")
            /\ pc' = "m1_page"
            /\ UNCHANGED exc
    /\ UNCHANGED <<filename, file_content, file_type, text_content,
                   extracted_text, ocr_text, parsed_content, result, harness>>

\* one iteration of the page loop: page.extract_text() raises (swallowed by
\* the inner handler), returns None, or returns a text
M1Page ==
    /\ pc = "m1_page"
    /\ page_i < npages
    /\ \E o \in PageOutcomes :
          /\ text_content' = AddPage(text_content, o)
          /\ pageLog' = Append(pageLog, o)
          /\ logged' = page_log("pypdf", o, logged)
    /\ page_i' = page_i + 1
    /\ UNCHANGED <<filename, file_content, pc, file_type, extracted_text,
                   ocr_text, npages, parsed_content, exc, result, trace, harness>>

\* an exception of the iteration over pdf_reader.pages itself: it is outside
\* the inner handler, the outer one catches it; text_content keeps what the
\* pages so far have added
M1IterRaise ==
    /\ pc = "m1_page"
    /\ exc' = PYPDF_EXC
    /\ trace' = Append(trace, Event("pypdf", "raised"))
    /\ logged' = failed_log("pypdf")
    /\ pc' = "m2_open"
    /\ UNCHANGED <<filename, file_content, file_type, text_content,
                   extracted_text, ocr_text, npages, page_i, parsed_content,
                   result, pageLog, harness>>

M1CheckNoReturn ==
    /\ pc = "m1_page"
    /\ page_i = npages
    /\ IF pypdf_accepts(text_content)
       THEN /\ parsed_content' = strip(text_content)
            /\ trace' = Append(trace, Event("pypdf", "accepted"))
            /\ logged' = Log("info", "Successfully parsed PDF with pypdf")
            /\ UNCHANGED text_content
       ELSE /\ text_content' = <<>>
            /\ trace' = Append(trace, Event("pypdf", "rejected"))
            /\ logged' = shortfall_log("pypdf")
            /\ UNCHANGED parsed_content
    /\ pc' = "m2_open"
    /\ UNCHANGED <<filename, file_content, file_type, extracted_text, ocr_text,
                   npages, page_i, exc, result, pageLog, harness>>

\* after the loop: return the text, or reset it and fall through
M1Check ==
    /\ pc = "m1_page"
    /\ page_i = npages
    /\ IF pypdf_accepts(text_content)
       THEN /\ parsed_content' = strip(text_content)
            /\ trace' = Append(trace, Event("pypdf", "accepted"))
            /\ logged' = Log("info", "Successfully parsed PDF with pypdf")
            /\ pc' = "validate"
            /\ UNCHANGED text_content
       ELSE /\ text_content' = <<>>
            /\ trace' = Append(trace, Event("pypdf", "rejected"))
            /\ logged' = shortfall_log("pypdf")
            /\ pc' = "m2_open"
            /\ UNCHANGED parsed_content
    /\ UNCHANGED <<filename, file_content, file_type, extracted_text, ocr_text,
                   npages, page_i, exc, result, pageLog, harness>>

(***************************************************************************)
(* parse_pdf, strategy 2: pdfplumber.                                      *)
(***************************************************************************)
pdfplumber_accepts_ge(tc) == strip(tc) /= <<>> /\ Len(strip(tc)) >= MinLen

\* "text_content.strip() and len(text_content.strip()) > 50"
pdfplumber_accepts(tc) == strip(tc) /= <<>> /\ Len(strip(tc)) > MinLen

\* BytesIO(file_content); pdfplumber.open(pdf_file): raises, or a document
M2Open ==
    /\ pc = "m2_open"
    /\ \/   /\ exc' = PDFPLUMBER_EXC
            /\ trace' = trace \o <<Event("pdfplumber", "start"),
                                   Event("pdfplumber", "raised")>>
            /\ logged' = failed_log("pdfplumber")
            /\ pc' = "m3_convert"
            /\ UNCHANGED <<npages, page_i>>
       \/ \E n \in 0..MaxPages :
            /\ npages' = n
            /\ page_i' = 0
            /\ trace' = Append(trace, Event("pdfplumber", "start"))
            /\ logged' = Log("info", "Attempting PDF parsing with pdfplumber")
            /\ pc' = "m2_page"
            /\ UNCHANGED exc
    /\ pageLog' = <<>>
    /\ UNCHANGED <<filename, file_content, file_type, text_content,
                   extracted_text, ocr_text, parsed_content, result, harness>>

M2Page ==
    /\ pc = "m2_page"
    /\ page_i < npages
    /\ \E o \in PageOutcomes :
          /\ text_content' = AddPage(text_content, o)
          /\ pageLog' = Append(pageLog, o)
          /\ logged' = page_log("pdfplumber", o, logged)
    /\ page_i' = page_i + 1
    /\ UNCHANGED <<filename, file_content, pc, file_type, extracted_text,
                   ocr_text, npages, parsed_content, exc, result, trace, harness>>

\* an exception of the iteration over pdf.pages or of leaving the with block
M2IterRaise ==
    /\ pc = "m2_page"
    /\ exc' = PDFPLUMBER_EXC
    /\ trace' = Append(trace, Event("pdfplumber", "raised"))
    /\ logged' = failed_log("pdfplumber")
    /\ pc' = "m3_convert"
    /\ UNCHANGED <<filename, file_content, file_type, text_content,
                   extracted_text, ocr_text, npages, page_i, parsed_content,
                   result, pageLog, harness>>

M2Check ==
    /\ pc = "m2_page"
    /\ page_i = npages
    /\ IF pdfplumber_accepts(text_content)
       THEN /\ parsed_content' = strip(text_content)
            /\ trace' = Append(trace, Event("pdfplumber", "accepted"))
            /\ logged' = Log("info", "Successfully parsed PDF with pdfplumber")
            /\ pc' = "validate"
       ELSE /\ trace' = Append(trace, Event("pdfplumber", "rejected"))
            /\ logged' = shortfall_log("pdfplumber")
            /\ pc' = "m3_convert"
            /\ UNCHANGED parsed_content
    /\ UNCHANGED <<filename, file_content, file_type, text_content,
                   extracted_text, ocr_text, npages, page_i, exc, result,
                   pageLog, harness>>

(***************************************************************************)
(* parse_pdf, strategy 3: extract_text_with_ocr, and the end of parse_pdf. *)
(***************************************************************************)
\* convert_from_bytes(file_content, dpi=300, fmt='jpeg'): raises (the outer
\* handler returns ""), or one image per page
M3Convert ==
    /\ pc = "m3_convert"
    /\ \/   /\ exc' = OCR_EXC
            /\ trace' = trace \o <<Event("ocr", "start"),
                                   Event("ocr", "raised")>>
            /\ ocr_text' = <<>>
            /\ logged' = Log("error", "OCR extraction failed")
            /\ pc' = "m3_return"
            /\ UNCHANGED <<npages, page_i, extracted_text>>
       \/ \E n \in 0..MaxPages :
            /\ npages' = n
            /\ page_i' = 0
            /\ extracted_text' = <<>>
            /\ trace' = Append(trace, Event("ocr", "start"))
            /\ logged' = Log("info", "Converted PDF to images for OCR")
            /\ pc' = "m3_page"
            /\ UNCHANGED <<exc, ocr_text>>
    /\ pageLog' = <<>>
    /\ UNCHANGED <<filename, file_content, file_type, text_content,
                   parsed_content, result, harness>>

\* one image: pytesseract.image_to_string raises (swallowed) or returns a text
M3Page ==
    /\ pc = "m3_page"
    /\ page_i < npages
    /\ \E o \in OcrOutcomes :
          /\ extracted_text' = AddPage(extracted_text, o)
          /\ pageLog' = Append(pageLog, o)
          /\ logged' = (IF o.k = "raise" THEN Log("warning", "OCR failed for page")
                         ELSE IF HasText(o.t)
                              THEN Log("debug", "OCR extracted text from page")
                              ELSE Log("debug", "No text found on page"))
    /\ page_i' = page_i + 1
    /\ UNCHANGED <<filename, file_content, pc, file_type, text_content,
                   ocr_text, npages, parsed_content, exc, result, trace, harness>>

\* after the loop: return extracted_text.strip() or ""
M3Finish ==
    /\ pc = "m3_page"
    /\ page_i = npages
    /\ ocr_text' = (IF strip(extracted_text) /= <<>>
                    THEN strip(extracted_text) ELSE <<>>)
    /\ logged' = (IF strip(extracted_text) /= <<>>
                   THEN Log("info", "OCR successfully extracted characters")
                   ELSE Log("warning", "OCR found no text in the PDF"))
    /\ pc' = "m3_return"
    /\ UNCHANGED <<filename, file_content, file_type, text_content,
                   extracted_text, npages, page_i, parsed_content, exc, result,
                   trace, pageLog, harness>>

PDF_FAILED_MSG ==
    << "PDF parsing failed: Unable to extract text content using any method. ",
       "This may be due to: 1) Empty or corrupted PDF, 2) Heavily encrypted PDF, ",
       "3) PDF with only images/graphics, or 4) OCR engine issues. ",
       "Please ensure the PDF contains readable text or try converting it to a text format." >>

ocr_accepts_long(t) == t /= <<>> /\ Len(strip(t)) > MinLen

\* "ocr_text and ocr_text.strip()"
ocr_accepts(t) == t /= <<>> /\ strip(t) /= <<>>

PdfReturnNoRaise ==
    /\ pc = "m3_return"
    /\ parsed_content' = ocr_text
    /\ trace' = Append(trace, Event("ocr", IF ocr_accepts(ocr_text)
                                            THEN "accepted" ELSE "rejected"))
    /\ logged' = (IF ocr_accepts(ocr_text)
                   THEN Log("info", "OCR successfully extracted characters")
                   ELSE logged)
    /\ pc' = "validate"
    /\ UNCHANGED <<filename, file_content, file_type, text_content,
                   extracted_text, ocr_text, npages, page_i, exc, result,
                   pageLog, harness>>

\* parse_pdf after the OCR call: return ocr_text or raise ValueError, which
\* parse_file logs and re-raises
PdfReturn ==
    /\ pc = "m3_return"
    /\ IF ocr_accepts(ocr_text)
       THEN /\ parsed_content' = ocr_text
            /\ trace' = Append(trace, Event("ocr", "accepted"))
            /\ logged' = Log("info", "OCR successfully extracted characters")
            /\ pc' = "validate"
            /\ UNCHANGED result
       ELSE /\ result' = Raised(PDF_FAILED_MSG)
            /\ trace' = Append(trace, Event("ocr", "rejected"))
            /\ logged' = Log("error", "Failed to parse file")
            /\ pc' = "done"
            /\ UNCHANGED parsed_content
    /\ UNCHANGED <<filename, file_content, file_type, text_content,
                   extracted_text, ocr_text, npages, page_i, exc, pageLog,
                   harness>>

(***************************************************************************)
(* One parse_file call.                                                    *)
(***************************************************************************)
Next ==
    \/ ParseFileEntry
    \/ ParseMarkdown
    \/ ParseText
    \/ Validate
    \/ M1Open
    \/ M1Page
    \/ M1IterRaise
    \/ M1Check
    \/ M2Open
    \/ M2Page
    \/ M2IterRaise
    \/ M2Check
    \/ M3Convert
    \/ M3Page
    \/ M3Finish
    \/ PdfReturn

Spec == Init /\ [][Next]_vars

(***************************************************************************)
(* The classifier applied to file names that differ in the case of the     *)
(* extension only.                                                         *)
(***************************************************************************)
\* e with the letters at the positions in up in upper case
Recase(e, up) ==
    [i \in 1..Len(e) |-> IF i \in up /\ e[i] \in 97..122 THEN e[i] - 32 ELSE e[i]]

ClassifyDirs == { <<>>, <<100, 46, 112, 100, 102, 47>> }        \* "", "d.pdf/"
ClassifyStems ==
    { <<>>, <<97>>, <<46>>, <<97, 46, 98>>, <<46, 46, 97>> }    \* "", "a", ".", "a.b", "..a"
ClassifyExts ==
    { EXT_PDF, EXT_MD, EXT_MARKDOWN, EXT_TXT, EXT_TEXT,
      <<>>, <<46>>, <<46, 120, 121, 122>>, <<46, 112, 100>>,    \* "", ".", ".xyz", ".pd"
      <<46, 112, 100, 102, 120>>, <<46, 112, 100, 102, 32>> }   \* ".pdfx", ".pdf "

ClassifyArgs ==
    { [name |-> d \o s \o Recase(e, up), twin |-> d \o s \o Recase(e, up2)] :
        d \in ClassifyDirs, s \in ClassifyStems,
        <<e, up, up2>> \in
          UNION { { <<e, up, up2>> : up2 \in {{}, 1..Len(e), (1..Len(e)) \ up} } :
                  <<e, up>> \in UNION { {e} \X SUBSET (1..Len(e)) : e \in ClassifyExts } } }

InitClassify ==
    /\ arg \in ClassifyArgs
    /\ ret = NoRet
    /\ filename = <<>>
    /\ file_content = <<>>
    /\ pc = "idle"
    /\ file_type = "none"
    /\ text_content = <<>>
    /\ extracted_text = <<>>
    /\ ocr_text = <<>>
    /\ npages = 0
    /\ page_i = 0
    /\ parsed_content = <<>>
    /\ exc = ""
    /\ result = NoResult
    /\ trace = <<>>
    /\ pageLog = <<>>
    /\ logged = NoLog
    /\ calls = <<>>
    /\ NoService

Classify ==
    /\ ~ret.done
    /\ arg /= NoArg
    /\ ret' = [done |-> TRUE, kind |-> get_file_type(arg.name),
               twin_kind |-> get_file_type(arg.twin)]
    /\ UNCHANGED <<filename, file_content, pc, file_type, parsed_content,
                   result, pdf_locals, arg, calls, service>>

NextClassify == Classify

SpecClassify == InitClassify /\ [][NextClassify]_vars

(***************************************************************************)
(* The decoders parse_text and parse_markdown applied to one buffer: any   *)
(* bytes, or a str encoded with one of the double-byte codecs.             *)
(***************************************************************************)
\* byte values of the buffers: those of the text buffers, "@", and 0xA1, 0xA4
\* and 0xF9, lead and trail bytes of the double-byte codecs
DecodeAlphabet == ByteAlphabet \cup {64, 161, 164, 249}

\* byte pairs of the characters the encoded strings are written with
SamplePairs(codec) ==
    CASE codec = "gbk" ->
           { <<214, 208>>, <<194, 160>>, <<194, 161>>, <<161, 164>>, <<161, 161>> }
      [] codec = "gb2312" ->
           { <<214, 208>>, <<194, 161>>, <<161, 164>>, <<161, 161>> }
      [] codec = "big5" ->
           { <<164, 164>>, <<164, 64>>, <<249, 161>>, <<161, 64>> }

\* "A", space and the sample characters of the codec
CjkChars(codec) ==
    {65, 32} \cup {DbcsChar(codec, p[1], p[2]) : p \in SamplePairs(codec)}

DecodeArgs ==
    { [b |-> b, enc |-> "raw", s |-> <<>>] :
        b \in SeqsUpTo(DecodeAlphabet, MaxBytes) }
    \cup UNION { { [b |-> encode(codec, s), enc |-> codec, s |-> s] :
                     s \in SeqsUpTo(CjkChars(codec), MaxChars) } :
                 codec \in CjkEncodings }

NotCalled == [raised |-> FALSE, text |-> <<>>, msg |-> <<>>]
NoDecodeRet ==
    [called |-> {}, text |-> NotCalled, md |-> NotCalled, tried |-> <<>>,
     tried_md |-> <<>>, lossy |-> {}]

InitDecode ==
    /\ arg \in DecodeArgs
    /\ ret = NoDecodeRet
    /\ filename = <<>>
    /\ file_content = <<>>
    /\ pc = "idle"
    /\ file_type = "none"
    /\ text_content = <<>>
    /\ extracted_text = <<>>
    /\ ocr_text = <<>>
    /\ npages = 0
    /\ page_i = 0
    /\ parsed_content = <<>>
    /\ exc = ""
    /\ result = NoResult
    /\ trace = <<>>
    /\ pageLog = <<>>
    /\ logged = NoLog
    /\ calls = <<>>
    /\ NoService

CallParseText ==
    /\ "text" \notin ret.called
    /\ ret' = [ret EXCEPT !.called = @ \cup {"text"},
                          !.text = parse_text(arg.b),
                          !.tried = tried_encodings(TextEncodings, arg.b),
                          !.lossy = IF lossy_fallback(TextEncodings, arg.b)
                                    THEN @ \cup {"text"} ELSE @]
    /\ UNCHANGED <<filename, file_content, pc, file_type, parsed_content,
                   result, pdf_locals, arg, calls, service>>

CallParseMarkdown ==
    /\ "md" \notin ret.called
    /\ ret' = [ret EXCEPT !.called = @ \cup {"md"},
                          !.md = parse_markdown(arg.b),
                          !.tried_md = tried_encodings(MarkdownEncodings, arg.b),
                          !.lossy = IF lossy_fallback(MarkdownEncodings, arg.b)
                                    THEN @ \cup {"md"} ELSE @]
    /\ UNCHANGED <<filename, file_content, pc, file_type, parsed_content,
                   result, pdf_locals, arg, calls, service>>

NextDecode ==
    \/ CallParseText
    \/ CallParseMarkdown

SpecDecode == InitDecode /\ [][NextDecode]_vars

(***************************************************************************)
(* Several parse_file calls at once.  FileParser has no attribute and the  *)
(* module no global but the logger: all a call works on are its arguments  *)
(* and its locals, one set per call.  What the libraries make of a call's  *)
(* buffer is fixed per call by a script: the outcome of each page of each  *)
(* strategy, and whether the strategy raises after these pages.            *)
(***************************************************************************)
Script(pages, raises) == [pages |-> pages, raises |-> raises]
PageText(t) == [k |-> "text", t |-> t]

DocOf(d) ==
    CASE d = "fast" ->
           [ m1 |-> Script(<<PageText(X(25)), PageText(X(50))>>, FALSE),
             m2 |-> Script(<<>>, TRUE),
             m3 |-> Script(<<>>, TRUE) ]
      [] d = "left" ->
           [ m1 |-> Script(<<PageText(X(25))>>, TRUE),
             m2 |-> Script(<<PageText(X(25))>>, FALSE),
             m3 |-> Script(<<>>, TRUE) ]
      [] d = "scan" ->
           [ m1 |-> Script(<<PageText(X(25))>>, FALSE),
             m2 |-> Script(<<PageText(X(50))>>, FALSE),
             m3 |-> Script(<<PageText(<<32>> \o X(1) \o <<NL>>)>>, FALSE) ]
      [] OTHER ->
           [ m1 |-> Script(<<>>, TRUE),
             m2 |-> Script(<<>>, TRUE),
             m3 |-> Script(<<>>, TRUE) ]

\* the arguments of a call, and the script of its buffer
ConcInputs ==
    { [filename |-> <<97, 46, 80, 100, 102>>, file_content |-> <<37, 80, 68, 70>>,
       doc |-> d] : d \in {"fast", "left", "scan", "none"} }
    \cup { [filename |-> <<97>> \o EXT_MD, file_content |-> b, doc |-> "none"] :
             b \in {<<>>, <<160>>} }
    \cup { [filename |-> <<97>> \o EXT_TXT, file_content |-> <<164, 164>>,
            doc |-> "none"] }

NewCall(inp) ==
    [ filename |-> inp.filename, file_content |-> inp.file_content,
      doc |-> inp.doc, pc |-> "start", file_type |-> "none", page_i |-> 0,
      text_content |-> <<>>, extracted_text |-> <<>>, parsed_content |-> <<>>,
      result |-> NoResult, mixed |-> FALSE ]

InitConc ==
    /\ calls \in [1..NumCalls -> {NewCall(inp) : inp \in ConcInputs}]
    /\ NoService
    /\ arg = NoArg
    /\ ret = NoRet
    /\ filename = <<>>
    /\ file_content = <<>>
    /\ pc = "idle"
    /\ file_type = "none"
    /\ text_content = <<>>
    /\ extracted_text = <<>>
    /\ ocr_text = <<>>
    /\ npages = 0
    /\ page_i = 0
    /\ parsed_content = <<>>
    /\ exc = ""
    /\ result = NoResult
    /\ trace = <<>>
    /\ pageLog = <<>>
    /\ logged = NoLog

text_owner_shared(c) == 1

\* whose text_content call c reads and writes: parse_pdf's local (line 69)
text_owner(c) == c

\* call c goes on with its locals r and with tc in the text_content it uses;
\* mixed records that another call was under way at that moment
Proceed(c, r, tc) ==
    LET under_way == \E d \in (DOMAIN calls) \ {c} :
                        calls[d].pc \notin {"start", "done"}
        r2 == [r EXCEPT !.mixed = @ \/ under_way]
    IN  /\ calls' = [ [calls EXCEPT ![c] = r2]
                         EXCEPT ![text_owner(c)].text_content = tc ]
        /\ UNCHANGED <<filename, file_content, pc, file_type, parsed_content,
                       result, pdf_locals, arg, ret, service>>

TextOf(c) == calls[text_owner(c)].text_content

ScriptOf(r) ==
    CASE r.pc = "m1_page" -> DocOf(r.doc).m1
      [] r.pc = "m2_page" -> DocOf(r.doc).m2
      [] r.pc = "m3_page" -> DocOf(r.doc).m3

\* parse_file up to the dispatch; parse_pdf starts with text_content = ""
ConcEntry(c) ==
    LET r == calls[c]
        ft == get_file_type(r.filename)
    IN  /\ r.pc = "start"
        /\ IF r.file_content = <<>>
           THEN Proceed(c, [r EXCEPT !.result = Raised(EMPTY_MSG), !.pc = "done"],
                        TextOf(c))
           ELSE IF ft = "pdf"
           THEN Proceed(c, [r EXCEPT !.file_type = ft, !.pc = "m1_page"], <<>>)
           ELSE Proceed(c, [r EXCEPT !.file_type = ft, !.pc = Dispatch(ft)],
                        TextOf(c))

\* parse_markdown or parse_text
ConcDecode(c) ==
    LET r == calls[c]
        d == IF r.pc = "md" THEN parse_markdown(r.file_content)
             ELSE parse_text(r.file_content)
    IN  /\ r.pc \in {"md", "text"}
        /\ IF d.raised
           THEN Proceed(c, [r EXCEPT !.result = Raised(d.msg), !.pc = "done"],
                        TextOf(c))
           ELSE Proceed(c, [r EXCEPT !.parsed_content = d.text, !.pc = "validate"],
                        TextOf(c))

\* one page of the strategy the call is in
ConcPage(c) ==
    LET r == calls[c]
    IN  /\ r.pc \in {"m1_page", "m2_page", "m3_page"}
        /\ r.page_i < Len(ScriptOf(r).pages)
        /\ LET o == ScriptOf(r).pages[r.page_i + 1]
               r2 == [r EXCEPT !.page_i = @ + 1]
           IN  IF r.pc = "m3_page"
               THEN Proceed(c, [r2 EXCEPT !.extracted_text = AddPage(@, o)],
                            TextOf(c))
               ELSE Proceed(c, r2, AddPage(TextOf(c), o))

\* the end of a strategy: its exception is caught, or its candidate is
\* measured; after OCR parse_pdf returns or raises
ConcEnd(c) ==
    LET r == calls[c]
        s == ScriptOf(r)
        tc == TextOf(c)
        m2 == [r EXCEPT !.pc = "m2_page", !.page_i = 0]
        m3 == [r EXCEPT !.pc = "m3_page", !.page_i = 0, !.extracted_text = <<>>]
        accepted(t) == [r EXCEPT !.parsed_content = t, !.pc = "validate"]
        ocr == IF ~s.raises /\ strip(r.extracted_text) /= <<>>
               THEN strip(r.extracted_text) ELSE <<>>
    IN  /\ r.pc \in {"m1_page", "m2_page", "m3_page"}
        /\ r.page_i = Len(s.pages)
        /\ CASE r.pc = "m1_page" ->
                  IF s.raises THEN Proceed(c, m2, tc)
                  ELSE IF pypdf_accepts(tc) THEN Proceed(c, accepted(strip(tc)), tc)
                  ELSE Proceed(c, m2, <<>>)
             [] r.pc = "m2_page" ->
                  IF s.raises THEN Proceed(c, m3, tc)
                  ELSE IF pdfplumber_accepts(tc)
                       THEN Proceed(c, accepted(strip(tc)), tc)
                  ELSE Proceed(c, m3, tc)
             [] r.pc = "m3_page" ->
                  IF ocr_accepts(ocr) THEN Proceed(c, accepted(ocr), tc)
                  ELSE Proceed(c, [r EXCEPT !.result = Raised(PDF_FAILED_MSG),
                                            !.pc = "done"], tc)

\* the check of parsed_content and the return
ConcValidate(c) ==
    LET r == calls[c]
    IN  /\ r.pc = "validate"
        /\ Proceed(c, [r EXCEPT !.pc = "done",
                                !.result =
                                   IF r.parsed_content = <<>>
                                         \/ strip(r.parsed_content) = <<>>
                                   THEN Raised(NoContentMsg(r.file_type))
                                   ELSE Returned(r.file_type, r.parsed_content)],
                   TextOf(c))

NextConc ==
    \E c \in 1..NumCalls :
       \/ ConcEntry(c)
       \/ ConcDecode(c)
       \/ ConcPage(c)
       \/ ConcEnd(c)
       \/ ConcValidate(c)

SpecConc == InitConc /\ [][NextConc]_vars

(***************************************************************************)
(* The resource service (ResourceService) behind the routes of             *)
(* app/api/resources.py.  A request is handled in one step.  The table is  *)
(* a set of rows, the upload directory a set of paths; a read of the table *)
(* succeeds, a commit succeeds or fails and is rolled back, a file         *)
(* operation succeeds or fails.                                            *)
(***************************************************************************)
MAX_FILE_SIZE == 10485760
ALLOWED_EXTENSIONS == {EXT_PDF, EXT_MD, EXT_MARKDOWN, EXT_TXT, EXT_TEXT}

Ids == 1..MaxResources

\* the outcomes parse_file can have for a file: for a PDF what the cascade
\* returns depends on the libraries, a text or the error of the cascade
PdfParsed == {X(1)}

parse_file_outcomes(name, content) ==
    LET ft == get_file_type(name)
        d == IF ft = "md" THEN parse_markdown(content) ELSE parse_text(content)
    IN  IF content = <<>> THEN {Raised(EMPTY_MSG)}
        ELSE IF ft = "pdf"
        THEN {Returned("pdf", t) : t \in PdfParsed} \cup {Raised(PDF_FAILED_MSG)}
        ELSE IF d.raised THEN {Raised(d.msg)}
        ELSE IF d.text = <<>> \/ strip(d.text) = <<>>
        THEN {Raised(NoContentMsg(ft))}
        ELSE {Returned(ft, d.text)}

\* the multipart requests of POST /upload: title, file name, declared size
\* and content of the file
UploadFile(name, size, content) == [filename |-> name, size |-> size, content |-> content]

UploadFiles ==
    { UploadFile(<<97, 46, 80, 100, 102>>, 4, <<37, 80, 68, 70>>),
      UploadFile(<<97>> \o EXT_MD, 1, <<160>>),
      UploadFile(<<97>> \o EXT_MD, 1, <<>>),
      UploadFile(<<97>> \o EXT_MD, 0, <<>>),
      UploadFile(<<97>> \o EXT_MD, MAX_FILE_SIZE + 1, <<65>>),
      UploadFile(<<97, 46, 101, 120, 101>>, 1, <<65>>),            \* "a.exe"
      UploadFile(<<>>, 1, <<65>>) }

\* the title is "t", or " " with the markdown file
UploadRequests ==
    { [title |-> <<116>>, file |-> f] : f \in UploadFiles }
    \cup { [title |-> <<32>>, file |-> UploadFile(<<97>> \o EXT_MD, 1, <<65>>)] }

StorableUploads_any_extension ==
    { [req |-> req, parsed |-> p] :
        <<req, p>> \in
          UNION { {req} \X {p \in parse_file_outcomes(req.file.filename,
                                                     req.file.content) :
                               p.status = "ok"} :
                  req \in {q \in UploadRequests :
                             /\ strip(q.title) /= <<>>
                             /\ q.file.filename /= <<>>
                             /\ q.file.size /= 0
                             /\ q.file.size <= MAX_FILE_SIZE
                             /\ q.file.content /= <<>>} } }

\* the uploads that pass the checks of upload_file, each with a result of
\* parse_file
StorableUploads ==
    { [req |-> req, parsed |-> p] :
        <<req, p>> \in
          UNION { {req} \X {p \in parse_file_outcomes(req.file.filename,
                                                     req.file.content) :
                               p.status = "ok"} :
                  req \in {q \in UploadRequests :
                             /\ strip(q.title) /= <<>>
                             /\ q.file.filename /= <<>>
                             /\ q.file.size /= 0
                             /\ q.file.size <= MAX_FILE_SIZE
                             /\ lower(splitext_ext(q.file.filename))
                                   \in ALLOWED_EXTENSIONS
                             /\ q.file.content /= <<>>} } }

\* the bodies of PUT /{resource_id}: the fields the request sets
UpdateRequests ==          \* {}, {"title": "u"}, {"description": "d"}
    { <<>>, [title |-> <<117>>], [description |-> <<100>>] }

\* os.path.join(settings.upload_dir, f"{resource_id}{file_extension}")
FilePath(id, ext) == <<id, ext>>

create_resource_no_content(id, title, file, kind, path, parsed) ==
    [ id |-> id, title |-> title, description |-> <<>>,
      file_name |-> file.filename, file_size |-> file.size,
      file_type |-> kind, file_path |-> path,
      parsed_content |-> <<>> ]

\* the row create_resource adds for the ResourceCreate of upload_file
create_resource(id, title, file, kind, path, parsed) ==
    [ id |-> id, title |-> title, description |-> <<>>,
      file_name |-> file.filename, file_size |-> file.size,
      file_type |-> kind, file_path |-> path,
      parsed_content |-> parsed ]

\* db.query(Resource).filter(Resource.id == resource_id)
RowsOf(id) == {r \in db : r.id = id}

\* str(uuid.uuid4()): an identifier that no row and no stored file bears;
\* which one of them is immaterial, the first is taken
FreeIds == {i \in Ids : RowsOf(i) = {} /\ \A q \in files : q[1] /= i}

Respond(op, id, status, detail, body) ==
    response' = [op |-> op, id |-> id, status |-> status, detail |-> detail,
                 body |-> body, req |-> <<>>]

InitResource ==
    /\ NoService
    /\ calls = <<>>
    /\ arg = NoArg
    /\ ret = NoRet
    /\ filename = <<>>
    /\ file_content = <<>>
    /\ pc = "idle"
    /\ file_type = "none"
    /\ text_content = <<>>
    /\ extracted_text = <<>>
    /\ ocr_text = <<>>
    /\ npages = 0
    /\ page_i = 0
    /\ parsed_content = <<>>
    /\ exc = ""
    /\ result = NoResult
    /\ trace = <<>>
    /\ pageLog = <<>>
    /\ logged = NoLog

parse_state ==
    <<filename, file_content, pc, file_type, parsed_content, result, pdf_locals,
      arg, ret, calls, agents, api_key, remote_calls>>

\* the answers upload_resource and upload_file give a request they turn
\* down: the first check that fails, a failed read of the file, or the error
\* of parse_file
upload_rejections(req) ==
    LET f == req.file
        ext == lower(splitext_ext(f.filename))
    IN  IF strip(req.title) = <<>>
        THEN {"Title is required and cannot be empty"}
        ELSE IF f.filename = <<>> THEN {"File is required"}
        ELSE IF f.size = 0 THEN {"File appears to be empty"}
        ELSE IF f.size > MAX_FILE_SIZE THEN {"File size exceeds maximum limit"}
        ELSE IF ext \notin ALLOWED_EXTENSIONS THEN {"Unsupported file type"}
        ELSE {"Failed to read file"} \cup
             (IF f.content = <<>> THEN {"File content is empty"}
              ELSE {p.msg[1] : p \in {q \in parse_file_outcomes(f.filename, f.content) :
                                         q.status = "error"}})

UploadRejections == UNION {upload_rejections(req) : req \in UploadRequests}

\* POST /upload answered 400: nothing is stored
UploadRejected ==
    /\ \E detail \in UploadRejections : Respond("upload", 0, 400, detail, {})
    /\ UNCHANGED <<db, files, uploaded, parse_state>>

\* POST /upload with a file that passed the checks and was parsed: the file
\* is written to disk and the row committed (201); or writing fails, with
\* or without a file left at the path; or the commit fails and the file is
\* removed, unless removing it fails too
UploadStored ==
    /\ FreeIds /= {}
    /\ \E up \in StorableUploads :
          LET id == SetMin(FreeIds)
              f == up.req.file
              path == FilePath(id, lower(splitext_ext(f.filename)))
              row == create_resource(id, strip(up.req.title), f,
                                     up.parsed.file_type, path, up.parsed.text)
          IN  \/ /\ db' = db \cup {row}
                 /\ files' = files \cup {path}
                 /\ uploaded' = uploaded \cup
                                   {[id |-> id, file |-> f, parsed |-> up.parsed]}
                 /\ Respond("upload", id, 201,
                            "File uploaded and parsed successfully",
                            {[id |-> row.id, title |-> row.title,
                              file_name |-> row.file_name,
                              file_size |-> row.file_size,
                              file_type |-> row.file_type]})
              \/ /\ files' \in {files, files \cup {path}}
                 /\ Respond("upload", 0, 400, "Failed to save file", {})
                 /\ UNCHANGED <<db, uploaded>>
              \/ /\ files' \in {files, files \cup {path}}
                 /\ Respond("upload", 0, 400,
                            "Failed to save resource to database", {})
                 /\ UNCHANGED <<db, uploaded>>
    /\ UNCHANGED parse_state

\* GET /{resource_id}
GetResource ==
    /\ \E id \in Ids :
          IF RowsOf(id) = {}
          THEN Respond("get", id, 404, "not found", {})
          ELSE Respond("get", id, 200, "", RowsOf(id))
    /\ UNCHANGED <<db, files, uploaded, parse_state>>

\* GET /
GetResources ==
    /\ Respond("list", 0, 200, "", db)
    /\ UNCHANGED <<db, files, uploaded, parse_state>>

update_fields_all(old, data) ==
    [fld \in DOMAIN old |->
        IF fld \in DOMAIN data THEN data[fld]
        ELSE IF fld \in {"title", "description"} THEN <<>> ELSE old[fld]]

\* resource_data.dict(exclude_unset=True) and the setattr of each item
update_fields(old, data) ==
    [fld \in DOMAIN old |-> IF fld \in DOMAIN data THEN data[fld] ELSE old[fld]]

\* PUT /{resource_id}: the fields the request sets are assigned and
\* committed; a failed commit is rolled back (500)
UpdateResource ==
    /\ \E id \in Ids, data \in UpdateRequests :
          LET answer(status, detail, body) ==
                 response' = [op |-> "update", id |-> id, status |-> status,
                              detail |-> detail, body |-> body, req |-> data]
          IN  IF RowsOf(id) = {}
              THEN /\ answer(404, "not found", {})
                   /\ UNCHANGED <<db, uploaded>>
              ELSE LET old == CHOOSE r \in db : r.id = id
                       new == update_fields(old, data)
                   IN  /\ uploaded' = {u \in uploaded : u.id /= id}
                       /\ \/ /\ db' = (db \ {old}) \cup {new}
                             /\ answer(200, "", {new})
                          \/ /\ UNCHANGED db
                             /\ answer(500, "Failed to update resource", {})
    /\ UNCHANGED <<files, parse_state>>

\* DELETE /{resource_id}: the file is removed first (a failure is logged
\* only), then the row is deleted and committed; a failed commit is rolled
\* back (500)
DeleteResource ==
    /\ \E id \in Ids :
          IF RowsOf(id) = {}
          THEN /\ Respond("delete", id, 404, "not found", {})
               /\ UNCHANGED <<db, files, uploaded>>
          ELSE LET old == CHOOSE r \in db : r.id = id
               IN  /\ uploaded' = {u \in uploaded : u.id /= id}
                   /\ files' \in {files, files \ {old.file_path}}
                   /\ \/ /\ db' = db \ {old}
                         /\ Respond("delete", id, 204, "", {})
                      \/ /\ UNCHANGED db
                         /\ Respond("delete", id, 500, "Failed to delete resource", {})
    /\ UNCHANGED parse_state

NextResource ==
    \/ UploadRejected
    \/ UploadStored
    \/ GetResource
    \/ GetResources
    \/ UpdateResource
    \/ DeleteResource

SpecResource == InitResource /\ [][NextResource]_vars

(***************************************************************************)
(* The agent routes of app/api/agents.py over AgentService and AIService.  *)
(* A request is handled in one step.  The OpenAI client is external: a     *)
(* call of it answers or raises.                                           *)
(***************************************************************************)
AgentIds == 1..MaxAgents

\* the values of OPENAI_API_KEY: unset, "", " ", "sk"
KeyValues == {NoKey, Key(<<>>), Key(<<32>>), Key(<<115, 107>>)}

\* AIService.is_configured
is_configured(key) == key.set /\ strip(key.value) /= <<>>

\* the JSON bodies of POST /optimize-prompt: {}, and prompt "", " ", "p"
OptimizeRequests ==
    { <<>>, [prompt |-> <<>>], [prompt |-> <<32>>], [prompt |-> <<112>>] }

\* what the OpenAI client returns: a completion and the logs around it
Completion == [output |-> <<111>>, logs |-> <<"Calling OpenAI API...", "API call successful">>]

InitAgents ==
    /\ api_key \in KeyValues
    /\ agents = {}
    /\ remote_calls = 0
    /\ db = {}
    /\ files = {}
    /\ response = NoResponse
    /\ uploaded = {}
    /\ calls = <<>>
    /\ arg = NoArg
    /\ ret = NoRet
    /\ filename = <<>>
    /\ file_content = <<>>
    /\ pc = "idle"
    /\ file_type = "none"
    /\ text_content = <<>>
    /\ extracted_text = <<>>
    /\ ocr_text = <<>>
    /\ npages = 0
    /\ page_i = 0
    /\ parsed_content = <<>>
    /\ exc = ""
    /\ result = NoResult
    /\ trace = <<>>
    /\ pageLog = <<>>
    /\ logged = NoLog

\* POST /: AgentService.create_agent adds a row under a fresh uuid and
\* commits; any exception is answered 400
CreateAgent ==
    /\ \E id \in AgentIds :
          /\ \A a \in agents : a.id /= id
          /\ \A j \in AgentIds : j < id => \E a \in agents : a.id = j
          /\ LET row == [id |-> id, system_prompt |-> <<115>>, model |-> "gpt-4o-mini"]
             IN  \/ /\ agents' = agents \cup {row}
                    /\ response' = [op |-> "create", id |-> id, status |-> 201,
                                    detail |-> "", body |-> {row}, req |-> <<>>]
                 \/ /\ UNCHANGED agents
                    /\ response' = [op |-> "create", id |-> 0, status |-> 400,
                                    detail |-> "Failed to create Agent",
                                    body |-> {}, req |-> <<>>]
    /\ UNCHANGED <<api_key, remote_calls, db, files, uploaded, filename,
                   file_content, pc, file_type, parsed_content, result,
                   pdf_locals, arg, ret, calls>>

\* POST /{agent_id}/execute: AgentService.execute_agent raises ValueError
\* for an unknown id (400); with a key it calls AIService.execute_agent,
\* whose failure is a ValueError (400); without a key it reads the attribute
\* mock_execute_agent, which AIService does not have: the AttributeError is
\* answered 500
ExecuteAgent ==
    /\ \E id \in AgentIds :
          LET answer(status, detail, body) ==
                 response' = [op |-> "execute", id |-> id, status |-> status,
                              detail |-> detail, body |-> body, req |-> <<104>>]
          IN  IF \A a \in agents : a.id /= id
              THEN /\ answer(400, "Agent does not exist", {})
                   /\ UNCHANGED remote_calls
              ELSE IF is_configured(api_key)
              THEN /\ remote_calls < MaxRemoteCalls
                   /\ remote_calls' = remote_calls + 1
                   /\ \/ answer(200, "", {Completion})
                      \/ answer(400, "AI execution failed", {})
              ELSE /\ answer(500, "Failed to execute Agent", {})
                   /\ UNCHANGED remote_calls
    /\ UNCHANGED <<agents, api_key, db, files, uploaded, filename,
                   file_content, pc, file_type, parsed_content, result,
                   pdf_locals, arg, ret, calls>>

\* POST /optimize-prompt: the two HTTPException(400) are raised inside the
\* try block whose handler is "except Exception": it catches them, as it
\* catches the ValueError of a failed call, and raises HTTPException(500)
OptimizePrompt ==
    /\ \E request \in OptimizeRequests :
          LET original_prompt ==
                 IF "prompt" \in DOMAIN request THEN request.prompt ELSE <<>>
              answer(status, detail, body) ==
                 response' = [op |-> "optimize", id |-> 0, status |-> status,
                              detail |-> detail, body |-> body, req |-> request]
          IN  IF strip(original_prompt) = <<>> \/ ~is_configured(api_key)
              THEN /\ answer(500, "Optimization failed", {})
                   /\ UNCHANGED remote_calls
              ELSE /\ remote_calls < MaxRemoteCalls
                   /\ remote_calls' = remote_calls + 1
                   /\ \/ answer(200, "", {Completion})
                      \/ answer(500, "Optimization failed", {})
    /\ UNCHANGED <<agents, api_key, db, files, uploaded, filename,
                   file_content, pc, file_type, parsed_content, result,
                   pdf_locals, arg, ret, calls>>

NextAgents ==
    \/ CreateAgent
    \/ ExecuteAgent
    \/ OptimizePrompt

SpecAgents == InitAgents /\ [][NextAgents]_vars

(***************************************************************************)
(* Properties.                                                             *)
(***************************************************************************)
Last(q) == q[Len(q)]

NonBlank(t) == \E i \in 1..Len(t) : ~IsSpace(t[i])

\* what a page log amounts to: the non-blank page texts in page order, each
\* followed by one newline
RECURSIVE JoinPages(_)
JoinPages(log) ==
    IF log = <<>> THEN <<>>
    ELSE (IF Head(log).k = "text" /\ NonBlank(Head(log).t)
          THEN Head(log).t \o <<NL>> ELSE <<>>) \o JoinPages(Tail(log))

Ended(m) == {<<m, "rejected">>, <<m, "raised">>}

\* C1: whenever parse_file returns (file_type, text), text holds at least one
\* character that is not whitespace, whichever path produced it.
C1_ReturnedTextNotBlank ==
    result.status = "ok" => NonBlank(result.text)

C1_Witness ==
    /\ pc = "done"
    /\ result.status = "ok"
    /\ result.file_type = "pdf"
    /\ trace /= <<>>
    /\ Last(trace) = <<"ocr", "accepted">>

\* C2: when no PDF strategy's output is accepted, parse_pdf raises the fixed
\* message, which holds no strategy's exception text; what parse_pdf returns
\* is never empty or blank.
C2_ExhaustedCascadeRaisesFixedMessage ==
    /\ (file_type = "pdf" /\ pc = "done"
          /\ \A i \in 1..Len(trace) : trace[i][2] /= "accepted")
       => /\ result.status = "error"
          /\ result.msg[1] =
               "PDF parsing failed: Unable to extract text content using any method. "
          /\ \A k \in 1..Len(result.msg) : result.msg[k] \notin ExcTexts
    /\ (file_type = "pdf" /\ pc = "validate") => NonBlank(parsed_content)

C2_Witness ==
    /\ pc = "done"
    /\ result.status = "error"
    /\ trace = << <<"pypdf", "start">>, <<"pypdf", "raised">>,
                  <<"pdfplumber", "start">>, <<"pdfplumber", "raised">>,
                  <<"ocr", "start">>, <<"ocr", "raised">>, <<"ocr", "rejected">> >>

\* C3: the strategies start in the order pypdf, pdfplumber, OCR, each one
\* directly after its predecessor ended without accepted output; an accepted
\* output ends the cascade and is what parse_pdf returns.
C3_FixedStrategyOrder ==
    /\ \A i \in 1..Len(trace) :
          /\ trace[i] = <<"pypdf", "start">> => i = 1
          /\ trace[i] = <<"pdfplumber", "start">>
                => i > 1 /\ trace[i - 1] \in Ended("pypdf")
          /\ trace[i] = <<"ocr", "start">>
                => i > 1 /\ trace[i - 1] \in Ended("pdfplumber")
          /\ trace[i][2] /= "start"
                => \E j \in 1..(i - 1) : trace[j] = <<trace[i][1], "start">>
          /\ trace[i][2] = "accepted"
                => /\ i = Len(trace)
                   /\ pc \in {"validate", "done"}
                   /\ parsed_content =
                        (IF trace[i][1] = "ocr" THEN ocr_text ELSE strip(text_content))
    /\ (trace /= <<>>) => trace[1] = <<"pypdf", "start">>
    /\ (result.status = "ok" /\ result.file_type = "pdf")
          => Last(trace)[2] = "accepted" /\ result.text = parsed_content

C3_Witness ==
    /\ pc = "done"
    /\ result.status = "ok"
    /\ trace = << <<"pypdf", "start">>, <<"pypdf", "rejected">>,
                  <<"pdfplumber", "start">>, <<"pdfplumber", "rejected">>,
                  <<"ocr", "start">>, <<"ocr", "accepted">> >>

\* the pypdf loop has finished and its candidate was measured; until
\* pdfplumber is opened pageLog is the log of the pypdf pages
PypdfMeasured ==
    /\ Len(trace) = 2
    /\ trace[2] \in {<<"pypdf", "accepted">>, <<"pypdf", "rejected">>}

PypdfLen == Len(strip(JoinPages(pageLog)))

\* C4: a pypdf candidate of fewer than 50 trimmed characters (none included)
\* is not returned: parse_pdf goes on to pdfplumber.
C4_ShortFastPathFallsThrough ==
    /\ (PypdfMeasured /\ PypdfLen < 50)
          => /\ trace[2] = <<"pypdf", "rejected">>
             /\ pc = "m2_open"
             /\ parsed_content = <<>>
             /\ result = NoResult
    /\ (Len(trace) >= 3 /\ trace[2] = <<"pypdf", "rejected">>)
          => trace[3] = <<"pdfplumber", "start">>

C4_Witness ==
    /\ PypdfMeasured
    /\ PypdfLen = 49
    /\ pc = "m2_open"

\* C5 as stated: the pypdf candidate is accepted exactly when it has at
\* least 50 trimmed characters (50 accepted and returned, 49 rejected).
C5_AcceptsAtLeast50 ==
    PypdfMeasured => (trace[2] = <<"pypdf", "accepted">> <=> PypdfLen >= 50)

\* C5 amended: the pypdf candidate is accepted exactly when it has more than
\* 50 trimmed characters: 51 characters are returned without running
\* strategy 2, 50 characters (like 49) are rejected and pdfplumber runs.
C5_AcceptsMoreThan50 ==
    PypdfMeasured =>
       IF PypdfLen >= 51
       THEN /\ trace[2] = <<"pypdf", "accepted">>
            /\ pc \in {"validate", "done"}
            /\ parsed_content = strip(JoinPages(pageLog))
       ELSE /\ trace[2] = <<"pypdf", "rejected">>
            /\ pc = "m2_open"

C5_Witness ==
    /\ PypdfMeasured
    /\ PypdfLen = 50
    /\ trace[2] = <<"pypdf", "rejected">>
    /\ pc = "m2_open"

\* the OCR loop has run to its end; pageLog is the log of the OCR pages
OcrIterated ==
    /\ pc \in {"m3_return", "validate", "done"}
    /\ \E i \in 1..Len(trace) : trace[i] = <<"ocr", "start">>
    /\ \A i \in 1..Len(trace) : trace[i] /= <<"ocr", "raised">>

\* C6: when OCR is reached and at least one page yields non-blank text,
\* parse_pdf returns the trimmed OCR text, however short.
C6_AnyOcrTextAccepted ==
    (OcrIterated /\ \E k \in 1..Len(pageLog) :
                       pageLog[k].k = "text" /\ NonBlank(pageLog[k].t))
       => LET t == strip(JoinPages(pageLog))
          IN  /\ pc = "m3_return" => ocr_text = t
              /\ pc = "validate" => parsed_content = t
              /\ pc = "done" => result = Returned("pdf", t)

C6_Witness ==
    /\ pc = "done"
    /\ result.status = "ok"
    /\ Len(result.text) = 1
    /\ trace /= <<>>
    /\ Last(trace) = <<"ocr", "accepted">>

\* C7: an exception of pypdf is followed by the start of pdfplumber, one of
\* pdfplumber by the start of OCR; parse_pdf raises only after OCR was tried.
C7_StrategyExceptionNeverAborts ==
    /\ \A i \in 1..Len(trace) :
          /\ trace[i] = <<"pypdf", "raised">>
                => IF i = Len(trace)
                   THEN pc = "m2_open" /\ result = NoResult
                   ELSE trace[i + 1] = <<"pdfplumber", "start">>
          /\ trace[i] = <<"pdfplumber", "raised">>
                => IF i = Len(trace)
                   THEN pc = "m3_convert" /\ result = NoResult
                   ELSE trace[i + 1] = <<"ocr", "start">>
    /\ (file_type = "pdf" /\ result.status = "error")
          => \E i \in 1..Len(trace) : trace[i] = <<"ocr", "start">>

C7_Witness ==
    /\ pc = "done"
    /\ result.status = "ok"
    /\ trace = << <<"pypdf", "start">>, <<"pypdf", "raised">>,
                  <<"pdfplumber", "start">>, <<"pdfplumber", "raised">>,
                  <<"ocr", "start">>, <<"ocr", "accepted">> >>

\* C8: in each of the three strategies a page that raises or is blank adds
\* nothing and does not end the loop: the strategy's candidate text is the
\* non-blank page texts so far, in page order, each followed by one newline.
C8_CandidateIsThePagesOfTheStrategy ==
    /\ pc \in {"m1_page", "m2_page", "m3_page"} => Len(pageLog) = page_i
    /\ pc \in {"m1_page", "m2_page"} => text_content = JoinPages(pageLog)
    /\ pc = "m3_page" => extracted_text = JoinPages(pageLog)

\* C9: with an empty buffer parse_file raises 'File content is empty' and
\* nothing else has happened: no classification, no decoder, no strategy.
C9_EmptyBufferRejectedFirst ==
    (file_content = <<>> /\ pc /= "start")
       => /\ pc = "done"
          /\ result = Raised(<<"File content is empty">>)
          /\ file_type = "none"
          /\ parsed_content = <<>>
          /\ trace = <<>>

C9_Witness ==
    /\ pc = "done"
    /\ file_content = <<>>
    /\ get_file_type(filename) = "pdf"
    /\ result.status = "error"

\* the extension of a file name: from the last dot of the last path component,
\* provided a character other than a dot precedes it in that component
ExtOf(p) ==
    LET seps == {i \in 1..Len(p) : p[i] = 47}
        first == IF seps = {} THEN 1 ELSE SetMax(seps) + 1
        dots == {i \in first..Len(p) : p[i] = 46}
    IN  IF dots /= {} /\ \E j \in first..(SetMax(dots) - 1) : p[j] /= 46
        THEN SubSeq(p, SetMax(dots), Len(p))
        ELSE <<>>

\* C10: get_file_type returns a kind for every file name, the same kind for
\* two names that differ only in the case of the extension, and 'text' for
\* every extension other than .pdf, .md, .markdown, .txt, .text.
C10_ClassifierTotalCaseInsensitive ==
    ret.done =>
       /\ ret.kind \in {"pdf", "md", "text"}
       /\ ret.kind = ret.twin_kind
       /\ lower(ExtOf(arg.name)) \notin
             {EXT_PDF, EXT_MD, EXT_MARKDOWN, EXT_TXT, EXT_TEXT}
          => ret.kind = "text"
       /\ lower(ExtOf(arg.name)) = EXT_PDF => ret.kind = "pdf"

C10_Witness ==
    /\ ret.done
    /\ arg.name /= arg.twin
    /\ ret.kind = "pdf"
    /\ ret.twin_kind = "pdf"

\* C11 as stated: the kind the classifier reports, and the kind of a
\* successful parse_file, is one of pdf, markdown, text; a name with the
\* extension .md or .markdown is reported as 'markdown'.
C11_KindIsPdfMarkdownText ==
    /\ file_type \in {"none", "pdf", "markdown", "text"}
    /\ result.status = "ok" => result.file_type \in {"pdf", "markdown", "text"}
    /\ (file_type /= "none" /\ lower(ExtOf(filename)) \in {EXT_MD, EXT_MARKDOWN})
          => file_type = "markdown"

\* C11 amended: the kind the classifier reports, and the kind of a successful
\* parse_file, is one of pdf, md, text; a name with the extension .md or
\* .markdown (in any case) is reported as 'md', and parse_file returns the
\* kind the classifier reported.
C11_KindIsPdfMdText ==
    /\ file_type \in {"none", "pdf", "md", "text"}
    /\ result.status = "ok"
          => result.file_type \in {"pdf", "md", "text"} /\ result.file_type = file_type
    /\ (file_type /= "none" /\ lower(ExtOf(filename)) \in {EXT_MD, EXT_MARKDOWN})
          => file_type = "md"
    /\ (file_type /= "none" /\ lower(ExtOf(filename)) = EXT_PDF)
          => file_type = "pdf"

C11_Witness ==
    /\ pc = "done"
    /\ result.status = "ok"
    /\ result.file_type = "md"
    /\ lower(ExtOf(filename)) = EXT_MARKDOWN

\* C17: when a non-empty markdown or text buffer decodes to an empty or
\* whitespace-only string, parse_file raises 'No content could be extracted
\* from the <kind> file' with the classified kind; a decoding that is not
\* blank is returned with that kind.
C17_BlankDecodingRaisesNoContent ==
    (pc = "done" /\ file_content /= <<>> /\ file_type \in {"md", "text"})
       => IF NonBlank(parsed_content)
          THEN result = Returned(file_type, parsed_content)
          ELSE /\ result.status = "error"
               /\ result.msg =
                    << "No content could be extracted from the ",
                       (IF lower(ExtOf(filename)) \in {EXT_MD, EXT_MARKDOWN}
                        THEN "md" ELSE "text"),
                       " file" >>

C17_Witness ==
    /\ pc = "done"
    /\ file_type = "md"
    /\ file_content = <<160>>
    /\ result.status = "error"

\* C20: pdfplumber's candidate is accepted exactly when pypdf would accept the
\* same text; an accepted candidate is what parse_pdf returns, a rejected one
\* is not returned: OCR starts next.
C20_SecondStrategySameThreshold ==
    \A i \in 1..Len(trace) :
       (trace[i][1] = "pdfplumber" /\ trace[i][2] \in {"accepted", "rejected"})
          => /\ trace[i][2] = "accepted" <=> pypdf_accepts(text_content)
             /\ trace[i][2] = "accepted" => parsed_content = strip(text_content)
             /\ trace[i][2] = "rejected"
                   => IF i = Len(trace)
                      THEN pc = "m3_convert" /\ result = NoResult
                              /\ parsed_content = <<>>
                      ELSE trace[i + 1] = <<"ocr", "start">>

C20_Witness ==
    /\ trace /= <<>>
    /\ Last(trace) = <<"pdfplumber", "rejected">>
    /\ Len(strip(text_content)) = 50
    /\ pc = "m3_convert"

\* C12: for every byte buffer parse_text and parse_markdown return a string:
\* neither raises, whether or not a candidate encoding fits the bytes.
C12_DecodersNeverRaise ==
    /\ "text" \in ret.called => ~ret.text.raised /\ ret.text.msg = <<>>
    /\ "md" \in ret.called => ~ret.md.raised /\ ret.md.msg = <<>>

C12_Witness ==
    /\ ret.called = {"text", "md"}
    /\ arg.b = <<255, 255>>
    /\ ~decode_utf8(arg.b).ok
    /\ ~ret.text.raised
    /\ ~ret.md.raised

\* C13: for a string s without leading or trailing whitespace that is
\* encoded with gbk, gb2312 or big5, parse_text of the encoded bytes is s.
C13_CjkRoundTrip ==
    ( /\ "text" \in ret.called
      /\ arg.enc \in CjkEncodings
      /\ arg.s /= <<>> => ~IsSpace(arg.s[1]) /\ ~IsSpace(arg.s[Len(arg.s)]) )
       => ~ret.text.raised /\ ret.text.text = arg.s

\* C14: for every byte buffer parse_markdown returns the string parse_text
\* returns.
C14_MarkdownDecodesLikeText ==
    ret.called = {"text", "md"} => ret.md = ret.text

\* C19: parse_text returns the trimmed decoding under the first of utf-8,
\* utf-8-sig, gbk, gb2312, big5, latin-1, cp1252, iso-8859-1 that decodes the
\* whole buffer; the candidates tried are those up to that one and no later.
C19_FirstCandidateThatDecodes ==
    "text" \in ret.called =>
       LET b == arg.b
           order == << "utf-8", "utf-8-sig", "gbk", "gb2312", "big5",
                       "latin-1", "cp1252", "iso-8859-1" >>
           n == Len(ret.tried)
       IN  /\ ~ret.text.raised
           /\ ret.text.text =
                strip(IF decode_utf8(b).ok THEN decode_utf8(b).s
                      ELSE IF decode_utf8_sig(b).ok THEN decode_utf8_sig(b).s
                      ELSE IF decode_dbcs("gbk", b).ok THEN decode_dbcs("gbk", b).s
                      ELSE IF decode_dbcs("gb2312", b).ok
                           THEN decode_dbcs("gb2312", b).s
                      ELSE IF decode_dbcs("big5", b).ok THEN decode_dbcs("big5", b).s
                      ELSE decode_latin1(b).s)
           /\ n \in 1..Len(order)
           /\ ret.tried = SubSeq(order, 1, n)
           /\ decode(order[n], b).ok
           /\ \A k \in 1..(n - 1) : ~decode(order[k], b).ok

C19_Witness ==
    /\ "text" \in ret.called
    /\ ret.tried = <<"utf-8", "utf-8-sig", "gbk", "gb2312", "big5">>
    /\ NonBlank(ret.text.text)

\* what the pages of a script add to a candidate text
RECURSIVE RunPages(_, _)
RunPages(acc, pages) ==
    IF pages = <<>> THEN acc
    ELSE RunPages(IF Head(pages).k = "text" /\ NonBlank(Head(pages).t)
                  THEN acc \o Head(pages).t \o <<NL>> ELSE acc,
                  Tail(pages))

\* the outcome of one parse_file call that runs from entry to return with
\* no other call under way
Alone(r) ==
    LET doc == DocOf(r.doc)
        kind == get_file_type(r.filename)
        t1 == RunPages(<<>>, doc.m1.pages)
        t2 == RunPages(IF doc.m1.raises THEN t1 ELSE <<>>, doc.m2.pages)
        t3 == IF doc.m3.raises THEN <<>> ELSE strip(RunPages(<<>>, doc.m3.pages))
        decoded == IF kind = "md" THEN parse_markdown(r.file_content).text
                   ELSE parse_text(r.file_content).text
    IN  IF r.file_content = <<>> THEN Raised(<<"File content is empty">>)
        ELSE IF kind = "pdf"
        THEN IF ~doc.m1.raises /\ Len(strip(t1)) > 50 THEN Returned("pdf", strip(t1))
             ELSE IF ~doc.m2.raises /\ Len(strip(t2)) > 50
                  THEN Returned("pdf", strip(t2))
             ELSE IF t3 /= <<>> THEN Returned("pdf", t3)
             ELSE Raised(PDF_FAILED_MSG)
        ELSE IF NonBlank(decoded) THEN Returned(kind, decoded)
        ELSE Raised(<<"No content could be extracted from the ", kind, " file">>)

\* C16: under every interleaving of the steps of several parse_file calls,
\* the outcome of each call is the outcome of that call run alone.
C16_ConcurrentCallsDoNotInterfere ==
    \A c \in DOMAIN calls :
       /\ calls[c].pc = "done" => calls[c].result = Alone(calls[c])
       /\ calls[c].pc /= "done" => calls[c].result = NoResult

C16_Witness ==
    /\ DOMAIN calls /= {}
    /\ \A c \in {1, 2} :
          /\ calls[c].pc = "done"
          /\ calls[c].mixed
          /\ calls[c].file_type = "pdf"
          /\ calls[c].result.status = "ok"
    /\ calls[1].doc = "left"
    /\ calls[2].doc = "scan"

C21_SecondStrategyIndependent ==
    (trace /= <<>> /\ Last(trace) = <<"pdfplumber", "accepted">>)
       => parsed_content = strip(JoinPages(pageLog))

\* C22: in parse_text and in parse_markdown the lossy UTF-8 decoding is never
\* executed: some candidate up to latin-1 decodes the buffer, and the
\* candidates listed after latin-1 (cp1252, iso-8859-1) are never tried.
C22_LossyFallbackNeverExecuted ==
    /\ ret.lossy = {}
    /\ "text" \in ret.called =>
          /\ ret.tried /= <<>>
          /\ \A k \in 1..Len(ret.tried) : ret.tried[k] \notin {"cp1252", "iso-8859-1"}
    /\ "md" \in ret.called =>
          /\ ret.tried_md /= <<>>
          /\ \A k \in 1..Len(ret.tried_md) : ret.tried_md[k] /= "cp1252"

C22_Witness ==
    /\ ret.called = {"text", "md"}
    /\ arg.b = <<255>>
    /\ Last(ret.tried) = "latin-1"
    /\ Len(ret.tried) = 6
    /\ ret.tried_md = <<"utf-8", "utf-8-sig", "latin-1">>
    /\ ret.text.text = <<255>>

\* C23: a text parse_file returns has no leading and no trailing whitespace,
\* whichever path produced it: text or markdown decoding, pypdf, pdfplumber
\* or OCR.
C23_ReturnedTextIsTrimmed ==
    result.status = "ok" =>
       \/ result.text = <<>>
       \/ ~IsSpace(result.text[1]) /\ ~IsSpace(result.text[Len(result.text)])

C23_Witness ==
    /\ pc = "done"
    /\ result.status = "ok"
    /\ trace /= <<>>
    /\ Last(trace) = <<"ocr", "accepted">>
    /\ extracted_text /= <<>>
    /\ IsSpace(extracted_text[1])
    /\ IsSpace(extracted_text[Len(extracted_text)])
    /\ result.text = X(1) \o <<NL, NL, 32>> \o X(1)

\* C24: a shortfall or failure of strategy 1 is logged at info level, one of
\* strategy 2 at warning level, and after either log record the cascade goes
\* on with the next strategy.
C24_ShortfallSeverityInfoThenWarning ==
    trace /= <<>> =>
       /\ Last(trace) \in Ended("pypdf") =>
             logged.level = "info" /\ pc = "m2_open"
       /\ Last(trace) \in Ended("pdfplumber") =>
             logged.level = "warning" /\ pc = "m3_convert"

\* C24 as amended: a shortfall or failure of strategy 1 and one of strategy 2
\* are both logged at warning level, and after either log record the cascade
\* goes on with the next strategy.
C24_ShortfallSeverityWarning ==
    trace /= <<>> =>
       /\ Last(trace) \in Ended("pypdf") =>
             logged.level = "warning" /\ pc = "m2_open"
       /\ Last(trace) \in Ended("pdfplumber") =>
             logged.level = "warning" /\ pc = "m3_convert"

C24_Witness ==
    /\ trace = << <<"pypdf", "start">>, <<"pypdf", "rejected">>,
                  <<"pdfplumber", "start">>, <<"pdfplumber", "rejected">> >>
    /\ logged = Log("warning", "pdfplumber extracted insufficient text, trying OCR")
    /\ pageLog /= <<>>
    /\ pc = "m3_convert"

PdfPositions ==
    {"m1_open", "m1_page", "m2_open", "m2_page", "m3_convert", "m3_page",
     "m3_return"}

\* C25: parse_file dispatches on the kind only.  A file classified pdf is
\* never at a decoder, and when the three strategies have failed the error of
\* the cascade is what parse_file raises; a file classified md or text is
\* never at a PDF strategy or at OCR and none of them has left a trace.
C25_DispatchOnKindOnly ==
    /\ file_type = "pdf" =>
          /\ pc \in PdfPositions \cup {"validate", "done"}
          /\ (pc = "validate" \/ result.status = "ok") =>
                (trace /= <<>> /\ Last(trace)[2] = "accepted")
          /\ (trace /= <<>> /\ Last(trace) = <<"ocr", "rejected">>) =>
                (pc = "done" /\ result = Raised(PDF_FAILED_MSG))
    /\ file_type \in {"md", "text"} =>
          /\ pc \in {"md", "text", "validate", "done"}
          /\ trace = <<>>
          /\ text_content = <<>> /\ extracted_text = <<>> /\ ocr_text = <<>>
    /\ file_type = "md" => pc /= "text"
    /\ file_type = "text" => pc /= "md"

C25_Witness ==
    /\ file_type = "pdf"
    /\ pc = "done"
    /\ result = Raised(PDF_FAILED_MSG)
    /\ parsed_content = <<>>
    /\ Len(trace) = 6
    /\ trace[1] = <<"pypdf", "start">>
    /\ trace[3] = <<"pdfplumber", "start">>
    /\ trace[5] = <<"ocr", "start">>
    /\ Last(trace) = <<"ocr", "rejected">>

\* the replies of upload_file after the file was checked and parsed
AfterChecks == {"Failed to save file", "Failed to save resource to database"}

\* the extension of a file name in lower case
LowerExt(p) ==
    LET e == ExtOf(p)
    IN  [i \in 1..Len(e) |-> IF e[i] \in 65..90 THEN e[i] + 32 ELSE e[i]]

\* a row as upload_file stores it only for a file that passed every check
Checked(r) ==
    /\ r.file_name /= <<>>
    /\ r.file_size /= 0
    /\ r.file_size <= 10485760
    /\ LowerExt(r.file_name) \in
          { <<46, 112, 100, 102>>, <<46, 109, 100>>,
            <<46, 109, 97, 114, 107, 100, 111, 119, 110>>,
            <<46, 116, 120, 116>>, <<46, 116, 101, 120, 116>> }
    /\ NonBlank(r.parsed_content)

C26_Step ==
    /\ ( /\ response'.op = "upload"
         /\ response'.status /= 201
         /\ response'.detail \notin AfterChecks )
       => (response'.status = 400 /\ db' = db /\ files' = files)
    /\ (response'.op = "upload" /\ (db' /= db \/ files' /= files))
       => ( /\ response'.status = 201 \/ response'.detail \in AfterChecks
            /\ db \subseteq db'
            /\ files \subseteq files'
            /\ \A r \in db' \ db : Checked(r) /\ r.file_path \in files' \ files
            /\ \A q \in files' \ files : q[1] \notin {r.id : r \in db} )

\* C26: upload_file writes the file and creates the record only after the
\* file name, the declared size, the extension, the content and parse_file
\* were all found good; when one of them is not, the answer is 400 and no
\* file has been written and no record created.
C26_StoresOnlyAfterAllChecks == [][C26_Step]_vars

C26_Witness ==
    /\ response.op = "upload"
    /\ response.status = 400
    /\ response.detail = "No content could be extracted from the "
    /\ Cardinality(db) = 1
    /\ Cardinality(files) = 1

\* C27: after any sequence of uploads and deletions, also those in which the
\* commit fails and is rolled back, a record exists exactly when the file at
\* its file_path exists: no stored file without a record, no record whose
\* file was removed.
C27_RecordIffFile ==
    /\ \A r \in db : r.file_path \in files
    /\ \A q \in files : \E r \in db : r.file_path = q

C28_Step ==
    response'.op = "update" =>
       LET id == response'.id
           data == response'.req
           olds == {r \in db : r.id = id}
           news == {r \in db' : r.id = id}
       IN  /\ files' = files
           /\ {r \in db' : r.id /= id} = {r \in db : r.id /= id}
           /\ IF olds = {}
              THEN response'.status = 404 /\ db' = db
              ELSE /\ response'.status \in {200, 500}
                   /\ Cardinality(news) = 1
                   /\ \A o \in olds, n \in news :
                         /\ \A fld \in {"id", "file_name", "file_size", "file_type",
                                        "file_path", "parsed_content"} :
                               n[fld] = o[fld]
                         /\ \A fld \in {"title", "description"} :
                               \/ n[fld] = o[fld]
                               \/ fld \in DOMAIN data /\ n[fld] = data[fld]

BlankPrompt(request) ==
    \/ "prompt" \notin DOMAIN request
    \/ \A i \in 1..Len(request.prompt) : IsSpace(request.prompt[i])

KeyConfigured == api_key.set /\ NonBlank(api_key.value)

C29_Step ==
    response'.op = "optimize" =>
       /\ BlankPrompt(response'.req) =>
             /\ response'.status = 400
             /\ response'.detail = "Prompt cannot be empty"
             /\ remote_calls' = remote_calls
       /\ (~BlankPrompt(response'.req) /\ ~KeyConfigured) =>
             /\ response'.status = 400
             /\ remote_calls' = remote_calls

\* C29: the 400 rejections of optimize_prompt reach the client as 400: a
\* missing or blank prompt is answered 400 'Prompt cannot be empty', a request
\* made without an OpenAI key is answered 400, and in neither case is the AI
\* service called or the status turned into 500.
C29_OptimizeRejectionsAre400 == [][C29_Step]_vars

C30_Step ==
    response'.op = "execute" =>
       IF \A a \in agents : a.id /= response'.id
       THEN response'.status = 400 /\ remote_calls' = remote_calls
       ELSE IF KeyConfigured
       THEN /\ remote_calls' = remote_calls + 1
            /\ response'.status \in {200, 400}
            /\ response'.status = 200 =>
                  \E c \in response'.body : c.output /= <<>> /\ c.logs /= <<>>
       ELSE /\ remote_calls' = remote_calls
            /\ response'.status = 200
            /\ \E c \in response'.body : c.logs /= <<>>

\* C30: execute_agent raises ValueError (400) for an id without a record and
\* does not call the AI service; for an agent that exists it returns an
\* (output, logs) pair: through the remote API when a key is configured, and
\* through the mock execution, with no remote call and no failure, when none
\* is.
C30_ExecuteAgentBothBranches == [][C30_Step]_vars

====
